---------------------------- MODULE Spec2Model ----------------------------
(***************************************************************************)
(* Cubie-level cube algebra of full_cubie_tracking.py: the CubieCube value *)
(* (cp, co, ep, eo), its composition multiply, the six face-move tables,   *)
(* the move-notation parser, sequence building and inversion, the block    *)
(* check and the top-corner projection.                                    *)
(*                                                                         *)
(* Python lists are modelled as functions over 0..n-1, so that every index *)
(* expression reads as in the source.  Move strings and token lists are    *)
(* sequences of one-character strings / <<face, power>> pairs.             *)
(***************************************************************************)
EXTENDS Integers, Sequences, FiniteSets, TLC

\* Longest free input string, in characters, drawn for the notation functions.
MaxLen == 3
\* Longest sequence of quarter turns applied to the solved cube.
MaxTurns == 4
\* Number of compositions spent on building the three operands A, B, C.
MaxCompose == 3
\* Number of objects allocated on top of the six move constants.
MaxObjects == 1

\* A 0-based Python list from a tuple literal.
List(t) == [i \in 0..(Len(t) - 1) |-> t[i + 1]]

\* [v] * n
Repeat(v, n) == [i \in 0..(n - 1) |-> v]

NCorners == 8
NEdges == 12

None == [tag |-> "None"]

(***************************************************************************)
(* Position tables                                                         *)
(***************************************************************************)
TOP_POS == <<0, 3, 2, 1>>
BC_CORNER_POS == <<4, 5, 6, 7>>
BE_EDGE_POS == <<6, 9, 10, 4, 8, 11>>

(***************************************************************************)
(* CubieCube                                                               *)
(***************************************************************************)
CubieCube(cp, co, ep, eo) == [cp |-> cp, co |-> co, ep |-> ep, eo |-> eo]

solved ==
    CubieCube([i \in 0..(NCorners - 1) |-> i], Repeat(0, NCorners),
              [i \in 0..(NEdges - 1) |-> i], Repeat(0, NEdges))

\* Mutants of multiply: the twists are indexed the wrong way round (self at
\* i, m at m.cp[i]); the twist sum is not reduced mod 3.
multiply_twist_misindexed(self, m) ==
    CubieCube([i \in 0..(NCorners - 1) |-> self.cp[m.cp[i]]],
              [i \in 0..(NCorners - 1) |-> (self.co[i] + m.co[m.cp[i]]) % 3],
              [i \in 0..(NEdges - 1) |-> self.ep[m.ep[i]]],
              [i \in 0..(NEdges - 1) |-> (self.eo[m.ep[i]] + m.eo[i]) % 2])

multiply_no_mod(self, m) ==
    CubieCube([i \in 0..(NCorners - 1) |-> self.cp[m.cp[i]]],
              [i \in 0..(NCorners - 1) |-> self.co[m.cp[i]] + m.co[i]],
              [i \in 0..(NEdges - 1) |-> self.ep[m.ep[i]]],
              [i \in 0..(NEdges - 1) |-> (self.eo[m.ep[i]] + m.eo[i]) % 2])

\* self * m
multiply(self, m) ==
    CubieCube([i \in 0..(NCorners - 1) |-> self.cp[m.cp[i]]],
              [i \in 0..(NCorners - 1) |-> (self.co[m.cp[i]] + m.co[i]) % 3],
              [i \in 0..(NEdges - 1) |-> self.ep[m.ep[i]]],
              [i \in 0..(NEdges - 1) |-> (self.eo[m.ep[i]] + m.eo[i]) % 2])

(***************************************************************************)
(* Face moves                                                              *)
(***************************************************************************)
MOVE_U ==
    CubieCube(List(<<1,2,3,0,4,5,6,7>>),
              List(<<0,0,0,0,0,0,0,0>>),
              List(<<1,2,3,0,4,5,6,7,8,9,10,11>>),
              Repeat(0, NEdges))

\* Mutant of MOVE_R: one twist entry mistyped (last 2 written as 1).
MOVE_R_typo ==
    CubieCube(List(<<4,1,2,0,7,5,6,3>>),
              List(<<2,0,0,1,1,0,0,1>>),
              List(<<8,1,2,3,11,5,6,7,4,9,10,0>>),
              Repeat(0, NEdges))

MOVE_R ==
    CubieCube(List(<<4,1,2,0,7,5,6,3>>),
              List(<<2,0,0,1,1,0,0,2>>),
              List(<<8,1,2,3,11,5,6,7,4,9,10,0>>),
              Repeat(0, NEdges))

MOVE_F ==
    CubieCube(List(<<1,5,2,3,0,4,6,7>>),
              List(<<1,2,0,0,2,1,0,0>>),
              List(<<0,9,2,3,4,8,6,7,1,5,10,11>>),
              List(<<0,1,0,0,0,1,0,0,1,1,0,0>>))

MOVE_D ==
    CubieCube(List(<<0,1,2,3,5,6,7,4>>),
              Repeat(0, NCorners),
              List(<<0,1,2,3,5,6,7,4,8,9,10,11>>),
              Repeat(0, NEdges))

MOVE_L ==
    CubieCube(List(<<0,2,6,3,4,1,5,7>>),
              List(<<0,1,2,0,0,2,1,0>>),
              List(<<0,1,10,3,4,5,9,7,8,2,6,11>>),
              Repeat(0, NEdges))

MOVE_B ==
    CubieCube(List(<<0,1,3,7,4,5,2,6>>),
              List(<<0,0,1,2,0,0,2,1>>),
              List(<<0,1,2,11,4,5,6,10,8,9,3,7>>),
              List(<<0,0,0,1,0,0,0,1,0,0,1,1>>))

Faces == {"U", "R", "F", "D", "L", "B"}

MOVE_MAP ==
    [f \in Faces |->
        CASE f = "U" -> MOVE_U [] f = "R" -> MOVE_R [] f = "F" -> MOVE_F
          [] f = "D" -> MOVE_D [] f = "L" -> MOVE_L [] f = "B" -> MOVE_B]


(***************************************************************************)
(* Notation: parse_moves, moves_to_cube, invert_moves, compose_sequences   *)
(*                                                                         *)
(* A function that may raise returns [ok |-> TRUE, val |-> v] on return    *)
(* and [ok |-> FALSE, err |-> e] on raise.                                 *)
(***************************************************************************)
Return(v) == [ok |-> TRUE, val |-> v]
Raise(e) == [ok |-> FALSE, err |-> e]

\* Mutant of the error: the message quotes the input with its spaces
\* removed (s for seq).
ValueErrorOfStripped(face, seq) ==
    [kind |-> "ValueError", face |-> face,
     seq |-> SelectSeq(seq, LAMBDA ch : ch # " ")]

\* ValueError(f"Unexpected move face '{face}' in: {seq}")
ValueError(face, seq) == [kind |-> "ValueError", face |-> face, seq |-> seq]

\* seq.replace(" ", "")
StripSpaces(seq) == SelectSeq(seq, LAMBDA ch : ch # " ")

\* The while loop of parse_moves from index i (1-based here, i - 1 in the
\* source), with the tokens appended so far.
RECURSIVE ParseLoop(_, _, _, _)
ParseLoop(seq, s, i, out) ==
    IF i > Len(s) THEN Return(out)
    ELSE LET face == s[i] IN
         IF face \notin DOMAIN MOVE_MAP THEN Raise(ValueError(face, seq))
         ELSE LET modified == i + 1 <= Len(s) /\ s[i + 1] \in {"2", "'"}
                  power == IF modified
                           THEN (IF s[i + 1] = "2" THEN 2 ELSE 3)
                           ELSE 1
              IN ParseLoop(seq, s, IF modified THEN i + 2 ELSE i + 1,
                           Append(out, <<face, power>>))

parse_moves(seq) == ParseLoop(seq, StripSpaces(seq), 1, <<>>)

\* Mutant of the power loop: the move is applied once whatever the power.
TurnOnce(c, m, power) == multiply(c, m)

\* for _ in range(power): c = c.multiply(m)
RECURSIVE Turn(_, _, _)
Turn(c, m, power) ==
    IF power = 0 THEN c ELSE Turn(multiply(c, m), m, power - 1)

RECURSIVE BuildLoop(_, _, _)
BuildLoop(c, toks, k) ==
    IF k > Len(toks) THEN c
    ELSE BuildLoop(Turn(c, MOVE_MAP[toks[k][1]], toks[k][2]), toks, k + 1)

moves_to_cube(seq) ==
    LET parsed == parse_moves(seq) IN
    IF parsed.ok THEN Return(BuildLoop(solved, parsed.val, 1)) ELSE parsed

\* Mutant of the inverse power: the reduction is mod 3.
InvPowerMod3(power) == (4 - power) % 3

InvPower(power) == (4 - power) % 4

\* The rendering of one inverted token; <<>> when the token is dropped.
InvToken(face, power) ==
    LET inv_power == InvPower(power) IN
    IF inv_power = 0 THEN <<>>
    ELSE IF inv_power = 1 THEN <<<<face>>>>
    ELSE IF inv_power = 2 THEN <<<<face, "2">>>>
    ELSE IF inv_power = 3 THEN <<<<face, "'">>>>
    ELSE <<>>

Reversed(t) == [k \in 1..Len(t) |-> t[Len(t) + 1 - k]]

\* Mutant of the token order of invert_moves: the tokens are not reversed.
NotReversed(t) == t

InvOrder(t) == Reversed(t)

\* The list inv of invert_moves: one string per kept token.
RECURSIVE InvLoop(_, _)
InvLoop(toks, k) ==
    IF k > Len(toks) THEN <<>>
    ELSE InvToken(toks[k][1], toks[k][2]) \o InvLoop(toks, k + 1)

\* " ".join(strs)
RECURSIVE Join(_, _)
Join(strs, k) ==
    IF k > Len(strs) THEN <<>>
    ELSE IF k = Len(strs) THEN strs[k]
    ELSE strs[k] \o <<" ">> \o Join(strs, k + 1)

invert_moves(seq) ==
    LET parsed == parse_moves(seq) IN
    IF parsed.ok THEN Return(Join(InvLoop(InvOrder(parsed.val), 1), 1))
    ELSE parsed

\* " ".join([s for s in seqs if s.strip()])
compose_sequences(seqs) ==
    Join(SelectSeq(seqs, LAMBDA s : StripSpaces(s) # <<>>), 1)

(***************************************************************************)
(* check_blocks_preserved                                                  *)
(***************************************************************************)
\* AssertionError("BC not preserved at corner pos ..: has cubie .., co=..")
\* AssertionError("BE not preserved at edge pos ..: has cubie .., eo=..")
BlockError(block, pos, cubie, ori) ==
    [kind |-> "AssertionError", block |-> block, pos |-> pos,
     cubie |-> cubie, ori |-> ori]

CornerMoved(c, pos) == c.cp[pos] # pos \/ c.co[pos] # 0
EdgeMoved(c, pos) == c.ep[pos] # pos \/ c.eo[pos] # 0

\* Indices (1-based) of the entries of a position list, in loop order.
Indices(lst) == 1..Len(lst)

\* Mutant of the corner loop: the first entry of BC_CORNER_POS is skipped.
CornerLoopSkipFirst == 2..Len(BC_CORNER_POS)

CornerLoop == Indices(BC_CORNER_POS)
EdgeLoop == Indices(BE_EDGE_POS)

\* The least element of a non-empty set of integers.
Least(S) == CHOOSE x \in S : \A y \in S : x <= y

check_blocks_preserved(c) ==
    LET badC == {k \in CornerLoop : CornerMoved(c, BC_CORNER_POS[k])}
        badE == {k \in EdgeLoop : EdgeMoved(c, BE_EDGE_POS[k])}
    IN IF badC # {}
       THEN LET pos == BC_CORNER_POS[Least(badC)] IN
            Raise(BlockError("BC", pos, c.cp[pos], c.co[pos]))
       ELSE IF badE # {}
       THEN LET pos == BE_EDGE_POS[Least(badE)] IN
            Raise(BlockError("BE", pos, c.ep[pos], c.eo[pos]))
       ELSE Return(None)

(***************************************************************************)
(* phi_on_top_corners                                                      *)
(***************************************************************************)
\* AssertionError("Top corner cubie .. left the top layer (pos=..).")
TopError(cid, pos) ==
    [kind |-> "AssertionError", block |-> "Top", pos |-> pos, cubie |-> cid]

\* The greatest element of a non-empty set of integers.
Greatest(S) == CHOOSE x \in S : \A y \in S : y <= x

\* cubie_pos after the scan of positions 0..7: the last position holding
\* cid, or the initial 0 when no position holds it.
cubie_pos(c) ==
    [cid \in 0..(NCorners - 1) |->
        LET at == {pos \in 0..(NCorners - 1) : c.cp[pos] = cid} IN
        IF at = {} THEN 0 ELSE Greatest(at)]

\* cubie_ori after the same scan.
cubie_ori(c) ==
    [cid \in 0..(NCorners - 1) |->
        LET at == {pos \in 0..(NCorners - 1) : c.cp[pos] = cid} IN
        IF at = {} THEN 0 ELSE c.co[Greatest(at)]]

\* TOP_POS.index(pos), 0-based.
TopIndex(pos) == Least({j \in 1..Len(TOP_POS) : TOP_POS[j] = pos}) - 1

\* Mutant of the position looked up for a top cubie: the occupant of the
\* cubie's home position is taken for the cubie's position.
PosNowOccupant(c, cid) == c.cp[cid]

PosNow(c, cid) == cubie_pos(c)[cid]

phi_on_top_corners(c) ==
    LET top_cubies == TOP_POS
        InTop(pos) == \E j \in 1..Len(TOP_POS) : TOP_POS[j] = pos
        left == {i \in 1..Len(top_cubies) : ~InTop(PosNow(c, top_cubies[i]))}
    IN IF left # {}
       THEN LET cid == top_cubies[Least(left)] IN
            Raise(TopError(cid, PosNow(c, cid)))
       ELSE Return([perm |-> [i \in 0..(Len(top_cubies) - 1) |->
                                 TopIndex(PosNow(c, top_cubies[i + 1]))],
                    twist |-> [i \in 0..(Len(top_cubies) - 1) |->
                                 cubie_ori(c)[top_cubies[i + 1]]]])

(***************************************************************************)
(* State                                                                   *)
(***************************************************************************)
VARIABLES
    \* a caller of the notation functions, as main() calls them
    seq,     \* the move string under discussion
    pc,      \* the caller's position
    toks,    \* parse_moves(seq)
    cube,    \* moves_to_cube(seq)
    inv,     \* invert_moves(seq)
    icube,   \* moves_to_cube(inv)
    prod,    \* cube.multiply(icube)
    inv2,    \* invert_moves(inv)
    cube2,   \* moves_to_cube(inv2)
    chk,     \* outcome of check_blocks_preserved(cube)
    phi,     \* outcome of phi_on_top_corners(cube)
    err,     \* the exception that ended the caller
    \* a caller turning faces of the solved cube
    c,       \* the cube after the turns
    hist,    \* the faces turned, in order
    \* a caller composing three cube values
    A, B, C, \* the operands
    ncomp,   \* compositions spent on building them
    apc,     \* the caller's position
    lhs,     \* A.multiply(B).multiply(C)
    rhs,     \* A.multiply(B.multiply(C))
    chkA,    \* outcome of check_blocks_preserved(A)
    phiA,    \* outcome of phi_on_top_corners(A)
    \* the objects of a caller: cube values by reference
    heap,    \* the CubieCube objects, by address 1..Len(heap)
    top_pos, bc_pos, be_pos,  \* the module-level position lists
    ret      \* what the last call returned or raised

notationVars ==
    <<seq, pc, toks, cube, inv, icube, prod, inv2, cube2, chk, phi, err>>
turnVars == <<c, hist>>
algebraVars == <<A, B, C, ncomp, apc, lhs, rhs, chkA, phiA>>
heapVars == <<heap, top_pos, bc_pos, be_pos, ret>>
vars == <<notationVars, turnVars, algebraVars, heapVars>>

NotationIdle ==
    /\ seq = <<>> /\ pc = "idle" /\ toks = None /\ cube = None /\ inv = None
    /\ icube = None /\ prod = None /\ inv2 = None /\ cube2 = None
    /\ chk = None /\ phi = None /\ err = None
TurnIdle == c = None /\ hist = <<>>
AlgebraIdle ==
    /\ A = None /\ B = None /\ C = None /\ ncomp = 0 /\ apc = "idle"
    /\ lhs = None /\ rhs = None /\ chkA = None /\ phiA = None
HeapIdle ==
    /\ heap = <<>> /\ top_pos = None /\ bc_pos = None /\ be_pos = None
    /\ ret = None

(***************************************************************************)
(* The notation functions on input strings                                 *)
(***************************************************************************)
\* Characters of the inputs: the faces, the two modifiers, the space, and
\* two characters foreign to the notation.
Alphabet == Faces \cup {"2", "'", " ", "x", "u"}

StringsUpTo(n) == UNION {[1..k -> Alphabet] : k \in 0..n}

\* The sequences A, f, U and W of main().
SeqA == <<"R", "2", "B", "2", "R", "F", "R", "'", "B", "2", "R", "F", "'", "R">>
SeqF == StripSpaces(<<"R", "'", " ", "D", " ", "R", " ", "D", "'", " ", "R", "'", " ", "D", " ", "R">>)
SeqU == <<"U">>
SeqW == compose_sequences(<<SeqF, SeqU, invert_moves(SeqF).val, <<"U", "'">> >>)
MainSeqs == {SeqA, SeqU, SeqF, SeqW}

InitNotation ==
    /\ seq \in StringsUpTo(MaxLen) \cup MainSeqs
    /\ pc = "start" /\ toks = None /\ cube = None /\ inv = None
    /\ icube = None /\ prod = None /\ inv2 = None /\ cube2 = None
    /\ chk = None /\ phi = None /\ err = None
    /\ TurnIdle /\ AlgebraIdle /\ HeapIdle

\* toks = parse_moves(seq)
ParseMoves ==
    /\ pc = "start"
    /\ LET r == parse_moves(seq) IN
       IF r.ok THEN /\ toks' = r.val /\ pc' = "parsed" /\ err' = err
               ELSE /\ toks' = toks /\ pc' = "raised" /\ err' = r.err
    /\ UNCHANGED <<seq, cube, inv, icube, prod, inv2, cube2, chk, phi>>
    /\ UNCHANGED <<turnVars, algebraVars, heapVars>>

\* cube = moves_to_cube(seq)
MovesToCube ==
    /\ pc = "parsed"
    /\ LET r == moves_to_cube(seq) IN
       IF r.ok THEN /\ cube' = r.val /\ pc' = "built" /\ err' = err
               ELSE /\ cube' = cube /\ pc' = "raised" /\ err' = r.err
    /\ UNCHANGED <<seq, toks, inv, icube, prod, inv2, cube2, chk, phi>>
    /\ UNCHANGED <<turnVars, algebraVars, heapVars>>

\* inv = invert_moves(seq)
InvertMoves ==
    /\ pc = "built"
    /\ LET r == invert_moves(seq) IN
       IF r.ok THEN /\ inv' = r.val /\ pc' = "inverted" /\ err' = err
               ELSE /\ inv' = inv /\ pc' = "raised" /\ err' = r.err
    /\ UNCHANGED <<seq, toks, cube, icube, prod, inv2, cube2, chk, phi>>
    /\ UNCHANGED <<turnVars, algebraVars, heapVars>>

\* icube = moves_to_cube(inv); prod = cube.multiply(icube)
MultiplyByInverse ==
    /\ pc = "inverted"
    /\ LET r == moves_to_cube(inv) IN
       IF r.ok THEN /\ icube' = r.val /\ prod' = multiply(cube, r.val)
                    /\ pc' = "multiplied" /\ err' = err
               ELSE /\ icube' = icube /\ prod' = prod
                    /\ pc' = "raised" /\ err' = r.err
    /\ UNCHANGED <<seq, toks, cube, inv, inv2, cube2, chk, phi>>
    /\ UNCHANGED <<turnVars, algebraVars, heapVars>>

\* inv2 = invert_moves(inv); cube2 = moves_to_cube(inv2)
InvertTwice ==
    /\ pc = "multiplied"
    /\ LET r == invert_moves(inv)
           b == IF r.ok THEN moves_to_cube(r.val) ELSE r
       IN IF b.ok THEN /\ inv2' = r.val /\ cube2' = b.val
                       /\ pc' = "doubled" /\ err' = err
                  ELSE /\ inv2' = inv2 /\ cube2' = cube2
                       /\ pc' = "raised" /\ err' = b.err
    /\ UNCHANGED <<seq, toks, cube, inv, icube, prod, chk, phi>>
    /\ UNCHANGED <<turnVars, algebraVars, heapVars>>

\* check_blocks_preserved(cube), which main() calls for some sequences only
CheckBlocksPreserved ==
    /\ pc = "doubled"
    /\ LET r == check_blocks_preserved(cube) IN
       /\ chk' = r
       /\ IF r.ok THEN pc' = "checked" /\ err' = err
                  ELSE pc' = "raised" /\ err' = r.err
    /\ UNCHANGED <<seq, toks, cube, inv, icube, prod, inv2, cube2, phi>>
    /\ UNCHANGED <<turnVars, algebraVars, heapVars>>

\* perm, twist = phi_on_top_corners(cube)
PhiOnTopCorners ==
    /\ pc \in {"doubled", "checked"}
    /\ LET r == phi_on_top_corners(cube) IN
       /\ phi' = r
       /\ IF r.ok THEN pc' = "projected" /\ err' = err
                  ELSE pc' = "raised" /\ err' = r.err
    /\ UNCHANGED <<seq, toks, cube, inv, icube, prod, inv2, cube2, chk>>
    /\ UNCHANGED <<turnVars, algebraVars, heapVars>>

NextNotation ==
    \/ ParseMoves
    \/ MovesToCube
    \/ InvertMoves
    \/ MultiplyByInverse
    \/ InvertTwice
    \/ CheckBlocksPreserved
    \/ PhiOnTopCorners

SpecNotation == InitNotation /\ [][NextNotation]_vars

(***************************************************************************)
(* Properties of the notation functions (SpecNotation)                     *)
(***************************************************************************)
SameCube(x, y) == x.cp = y.cp /\ x.co = y.co /\ x.ep = y.ep /\ x.eo = y.eo

\* C1: for every move sequence S that parse_moves accepts, the cube built
\* from S composed with the cube built from invert_moves(S) equals the
\* solved cube in cp, co, ep and eo.
C1_InverseComposesToSolved ==
    pc \in {"multiplied", "doubled", "checked", "projected"}
        => SameCube(prod, solved)

\* A sequence of at least two tokens on different faces, one of them with a
\* modifier, has been built, inverted and composed with its inverse.
C1_Witness ==
    /\ pc = "multiplied"
    /\ Len(toks) >= 2 /\ toks[1][1] # toks[2][1] /\ toks[1][2] # 1
    /\ ~SameCube(cube, solved) /\ ~SameCube(icube, cube)

\* C9: for every move sequence S that parse_moves accepts, the cube built
\* from invert_moves(invert_moves(S)) equals the cube built from S.
C9_DoubleInverseSameCube ==
    pc \in {"doubled", "checked", "projected"} => SameCube(cube2, cube)

\* A sequence of two tokens has been inverted twice; the string obtained
\* differs from the input, and the cube is not the solved one.
C9_Witness ==
    /\ pc = "doubled" /\ Len(toks) >= 2 /\ inv2 # seq
    /\ ~SameCube(cube, solved)

Allowed == Faces \cup {"2", "'"}
Outside(s) == {i \in 1..Len(s) : s[i] \notin Allowed}
Foreign(s) == {i \in 1..Len(s) : s[i] \notin Allowed \cup {" "}}

\* C5 as stated: every input holding a character outside {U,R,F,D,L,B,2,'}
\* makes parse_moves raise an error that names such a character of the
\* input, and no token list is returned.
C5_OutsideCharRaises ==
    (pc # "start" /\ Outside(seq) # {})
        => /\ pc = "raised" /\ toks = None
           /\ err.kind = "ValueError"
           /\ \E i \in Outside(seq) : err.face = seq[i]

\* C5 as amended: every input holding a character other than the space
\* outside {U,R,F,D,L,B,2,'} makes parse_moves raise a ValueError and return
\* no token list; the error quotes the input as given and names either the
\* first such character or a 2 or ' that stands before it.
C5_ForeignCharRaises ==
    (pc # "start" /\ Foreign(seq) # {})
        => /\ pc = "raised" /\ toks = None
           /\ err.kind = "ValueError" /\ err.seq = seq
           /\ LET k == Least(Foreign(seq)) IN
              \/ err.face = seq[k]
              \/ /\ err.face \in {"2", "'"}
                 /\ \E j \in 1..(k - 1) : seq[j] = err.face

\* parse_moves has raised on an input that holds a space, a face and then a
\* foreign character, and has named that character.
C5_Witness ==
    /\ pc = "raised" /\ Len(seq) = 3
    /\ seq[1] = " " /\ seq[2] \in Faces /\ seq[3] = "x"
    /\ err.face = "x"

\* C6: the cube built from "R2B2RFR'B2RF'R" passes check_blocks_preserved:
\* corner positions 4,5,6,7 and edge positions 6,9,10,4,8,11 hold their own
\* cubie with orientation 0, and no violation is raised.
C6_SeqAPreservesBlocks ==
    (seq = SeqA /\ chk # None)
        => /\ chk = Return(None)
           /\ pc \in {"checked", "projected"}
           /\ \A p \in {4, 5, 6, 7} : cube.cp[p] = p /\ cube.co[p] = 0
           /\ \A p \in {6, 9, 10, 4, 8, 11} : cube.ep[p] = p /\ cube.eo[p] = 0

\* The check has returned on the cube of "R2B2RFR'B2RF'R", which is not the
\* solved cube.
C6_Witness ==
    seq = SeqA /\ pc = "checked" /\ chk.ok /\ ~SameCube(cube, solved)

\* C7: phi_on_top_corners of the cube built from "U" returns
\* perm = [1,2,3,0] and twist = [0,0,0,0].
C7_PhiOfU ==
    (seq = SeqU /\ pc \in {"projected", "raised"})
        => /\ pc = "projected"
           /\ phi = Return([perm |-> List(<<1, 2, 3, 0>>),
                            twist |-> List(<<0, 0, 0, 0>>)])

\* The projection has returned on the cube of "U".
C7_Witness == seq = SeqU /\ pc = "projected" /\ SameCube(cube, MOVE_U)

(***************************************************************************)
(* Quarter turns applied to the solved cube (SpecTurns)                    *)
(***************************************************************************)
InitTurns ==
    /\ c = solved /\ hist = <<>>
    /\ NotationIdle /\ AlgebraIdle /\ HeapIdle

\* c = c.multiply(MOVE_MAP[face])
TurnFace(face) ==
    /\ Len(hist) < MaxTurns
    /\ c' = multiply(c, MOVE_MAP[face])
    /\ hist' = Append(hist, face)
    /\ UNCHANGED <<notationVars, algebraVars, heapVars>>

NextTurns == \E face \in Faces : TurnFace(face)

SpecTurns == InitTurns /\ [][NextTurns]_vars

\* C2: for each of the six move constants, four successive multiply steps
\* from the solved cube give the solved cube again in cp, co, ep and eo.
C2_FourQuarterTurnsSolved ==
    \A face \in Faces :
        hist = <<face, face, face, face>> => SameCube(c, solved)

\* F, which twists corners and flips edges, has been applied four times.
C2_Witness == hist = <<"F", "F", "F", "F">> /\ SameCube(c, solved)

IsPermutation(f, n) ==
    /\ DOMAIN f = 0..(n - 1)
    /\ {f[i] : i \in 0..(n - 1)} = 0..(n - 1)

WellFormed(x) ==
    /\ IsPermutation(x.cp, NCorners)
    /\ IsPermutation(x.ep, NEdges)
    /\ DOMAIN x.co = 0..(NCorners - 1)
    /\ DOMAIN x.eo = 0..(NEdges - 1)
    /\ \A i \in 0..(NCorners - 1) : x.co[i] \in {0, 1, 2}
    /\ \A i \in 0..(NEdges - 1) : x.eo[i] \in {0, 1}

\* C4: in every cube reached from the solved cube by multiply steps with the
\* move constants, cp is a bijection on 0..7, ep a bijection on 0..11,
\* every co entry is in {0,1,2} and every eo entry in {0,1}.
C4_ReachableWellFormed == hist # <<>> => WellFormed(c)

\* Three turns have led to a cube with a corner twisted by 2, a flipped
\* edge and a corner away from its position.
C4_Witness ==
    /\ Len(hist) >= 3
    /\ \E i \in 0..(NCorners - 1) : c.co[i] = 2 /\ c.cp[i] # i
    /\ \E i \in 0..(NEdges - 1) : c.eo[i] = 1

(***************************************************************************)
(* Composition of three cube values (SpecAlgebra)                          *)
(***************************************************************************)
\* Two well-formed values no sequence of turns produces, as a caller may
\* construct them: corner URF twisted and edge UR flipped in place; corners
\* URF and DFR exchanged.
TWISTED ==
    CubieCube([i \in 0..(NCorners - 1) |-> i],
              [i \in 0..(NCorners - 1) |-> IF i = 0 THEN 1 ELSE 0],
              [i \in 0..(NEdges - 1) |-> i],
              [i \in 0..(NEdges - 1) |-> IF i = 0 THEN 1 ELSE 0])

SWAPPED ==
    CubieCube([i \in 0..(NCorners - 1) |->
                  IF i = 0 THEN 4 ELSE IF i = 4 THEN 0 ELSE i],
              Repeat(0, NCorners),
              [i \in 0..(NEdges - 1) |-> i],
              Repeat(0, NEdges))

\* The values the operands are composed of.
Factors == {MOVE_MAP[f] : f \in Faces} \cup {TWISTED, SWAPPED}

InitAlgebra ==
    /\ A = solved /\ B = solved /\ C = solved
    /\ ncomp = 0 /\ apc = "build"
    /\ lhs = None /\ rhs = None /\ chkA = None /\ phiA = None
    /\ NotationIdle /\ TurnIdle /\ HeapIdle

\* A = A.multiply(g)
ComposeA(g) ==
    /\ apc = "build" /\ ncomp < MaxCompose
    /\ A' = multiply(A, g) /\ ncomp' = ncomp + 1
    /\ UNCHANGED <<B, C, apc, lhs, rhs, chkA, phiA>>
    /\ UNCHANGED <<notationVars, turnVars, heapVars>>

\* B = B.multiply(g)
ComposeB(g) ==
    /\ apc = "build" /\ ncomp < MaxCompose
    /\ B' = multiply(B, g) /\ ncomp' = ncomp + 1
    /\ UNCHANGED <<A, C, apc, lhs, rhs, chkA, phiA>>
    /\ UNCHANGED <<notationVars, turnVars, heapVars>>

\* C = C.multiply(g)
ComposeC(g) ==
    /\ apc = "build" /\ ncomp < MaxCompose
    /\ C' = multiply(C, g) /\ ncomp' = ncomp + 1
    /\ UNCHANGED <<A, B, apc, lhs, rhs, chkA, phiA>>
    /\ UNCHANGED <<notationVars, turnVars, heapVars>>

\* lhs = A.multiply(B).multiply(C); rhs = A.multiply(B.multiply(C))
Associate ==
    /\ apc = "build"
    /\ lhs' = multiply(multiply(A, B), C)
    /\ rhs' = multiply(A, multiply(B, C))
    /\ apc' = "associated"
    /\ UNCHANGED <<A, B, C, ncomp, chkA, phiA>>
    /\ UNCHANGED <<notationVars, turnVars, heapVars>>

\* check_blocks_preserved(A), its outcome kept by the caller
CheckBlocksA ==
    /\ apc = "build"
    /\ chkA' = check_blocks_preserved(A)
    /\ apc' = "checked"
    /\ UNCHANGED <<A, B, C, ncomp, lhs, rhs, phiA>>
    /\ UNCHANGED <<notationVars, turnVars, heapVars>>

\* phi_on_top_corners(A), its outcome kept by the caller
PhiA ==
    /\ apc = "checked"
    /\ phiA' = phi_on_top_corners(A)
    /\ apc' = "projected"
    /\ UNCHANGED <<A, B, C, ncomp, lhs, rhs, chkA>>
    /\ UNCHANGED <<notationVars, turnVars, heapVars>>

NextAlgebra ==
    \/ \E g \in Factors : ComposeA(g)
    \/ \E g \in Factors : ComposeB(g)
    \/ \E g \in Factors : ComposeC(g)
    \/ Associate
    \/ CheckBlocksA
    \/ PhiA

SpecAlgebra == InitAlgebra /\ [][NextAlgebra]_vars

\* C3: for well-formed cube states A, B, C, A.multiply(B).multiply(C) equals
\* A.multiply(B.multiply(C)) in cp, co, ep and eo.
C3_MultiplyAssociative ==
    (apc = "associated" /\ WellFormed(A) /\ WellFormed(B) /\ WellFormed(C))
        => SameCube(lhs, rhs)

\* Both groupings have been computed for three operands none of which is
\* the solved cube, with B and C not commuting and a twisted result.
C3_Witness ==
    /\ apc = "associated"
    /\ ~SameCube(A, solved) /\ ~SameCube(B, solved) /\ ~SameCube(C, solved)
    /\ ~SameCube(multiply(B, C), multiply(C, B))
    /\ \E i \in 0..(NCorners - 1) : lhs.co[i] # 0

\* C10: for every well-formed cube on which check_blocks_preserved returns,
\* phi_on_top_corners returns too, its perm is a permutation of {0,1,2,3}
\* and every twist entry is in {0,1,2}.
C10_PhiDefinedOnBlockPreserving ==
    (apc = "projected" /\ WellFormed(A) /\ chkA.ok)
        => /\ phiA.ok
           /\ IsPermutation(phiA.val.perm, Len(TOP_POS))
           /\ DOMAIN phiA.val.twist = 0..(Len(TOP_POS) - 1)
           /\ \A i \in 0..(Len(TOP_POS) - 1) : phiA.val.twist[i] \in {0, 1, 2}

\* The check and the projection have returned on a cube that moves the top
\* corners and twists one of them.
C10_Witness ==
    /\ apc = "projected" /\ chkA.ok /\ phiA.ok
    /\ \E i \in 0..(Len(TOP_POS) - 1) : phiA.val.perm[i] # i
    /\ \E i \in 0..(Len(TOP_POS) - 1) : phiA.val.twist[i] # 0

(***************************************************************************)
(* Cube values as objects (SpecHeap)                                       *)
(*                                                                         *)
(* A CubieCube is a Python object holding four lists, and a caller holds   *)
(* references.  heap[a] is the value of the object at address a; the six   *)
(* move constants are the objects at addresses 1..6.  A call that builds   *)
(* a cube allocates; the objects it allocates and drops before returning   *)
(* are reclaimed.                                                          *)
(***************************************************************************)
MoveOrder == <<"U", "R", "F", "D", "L", "B">>

\* MOVE_MAP, by address.
MoveAddr(face) == CHOOSE a \in 1..Len(MoveOrder) : MoveOrder[a] = face

\* The objects at module load.
MoveObjects == [a \in 1..Len(MoveOrder) |-> MOVE_MAP[MoveOrder[a]]]

\* Mutant of the heap effect of multiply: new_cp, new_co, new_ep, new_eo
\* alias the lists of self, so that self holds the product afterwards.
multiply_in_place(h, self, m) ==
    LET r == multiply(h[self], h[m]) IN [Append(h, r) EXCEPT ![self] = r]

\* self.multiply(m) on objects: four fresh lists, one fresh CubieCube, at
\* the next address; the operands are read only.
multiply_at(h, self, m) == Append(h, multiply(h[self], h[m]))

\* CubieCube.solved() on objects.
solved_at(h) == Append(h, solved)

\* The loops of moves_to_cube on objects: c is the address of the current
\* cube, rebound to each product.
RECURSIVE TurnAt(_, _, _, _)
TurnAt(h, cur, m, power) ==
    IF power = 0 THEN h
    ELSE TurnAt(multiply_at(h, cur, m), Len(h) + 1, m, power - 1)

RECURSIVE BuildLoopAt(_, _, _)
BuildLoopAt(h, tokens, k) ==
    IF k > Len(tokens) THEN h
    ELSE BuildLoopAt(TurnAt(h, Len(h), MoveAddr(tokens[k][1]), tokens[k][2]),
                     tokens, k + 1)

\* The heap once a call that started on h0 has returned the last object of
\* h: what the call allocated and no longer references is reclaimed.
Reclaim(h0, h) == Append(SubSeq(h, 1, Len(h0)), h[Len(h)])

\* moves_to_cube(seq) on objects: the heap after the call, or the error.
moves_to_cube_at(h, s) ==
    LET parsed == parse_moves(s) IN
    IF parsed.ok
    THEN Return(Reclaim(h, BuildLoopAt(solved_at(h), parsed.val, 1)))
    ELSE parsed

\* The strings a caller builds cubes from.
HeapSeqs == {SeqU, <<"R", "2">>, <<"F", "'", " ", "B">>, <<"R", "x">>}

Called(op, ok) == [op |-> op, ok |-> ok]

InitHeap ==
    /\ heap = MoveObjects
    /\ top_pos = TOP_POS /\ bc_pos = BC_CORNER_POS /\ be_pos = BE_EDGE_POS
    /\ ret = None
    /\ NotationIdle /\ TurnIdle /\ AlgebraIdle

CanAllocate == Len(heap) < Len(MoveOrder) + MaxObjects

\* CubieCube.solved()
CallSolved ==
    /\ CanAllocate
    /\ heap' = solved_at(heap)
    /\ ret' = Called("solved", TRUE)
    /\ UNCHANGED <<top_pos, bc_pos, be_pos>>
    /\ UNCHANGED <<notationVars, turnVars, algebraVars>>

\* heap[self].multiply(heap[m])
CallMultiply(self, m) ==
    /\ CanAllocate
    /\ heap' = multiply_at(heap, self, m)
    /\ ret' = Called("multiply", TRUE)
    /\ UNCHANGED <<top_pos, bc_pos, be_pos>>
    /\ UNCHANGED <<notationVars, turnVars, algebraVars>>

\* moves_to_cube(s)
CallMovesToCube(s) ==
    /\ CanAllocate
    /\ LET r == moves_to_cube_at(heap, s) IN
       /\ heap' = IF r.ok THEN r.val ELSE heap
       /\ ret' = Called("moves_to_cube", r.ok)
    /\ UNCHANGED <<top_pos, bc_pos, be_pos>>
    /\ UNCHANGED <<notationVars, turnVars, algebraVars>>

\* check_blocks_preserved(heap[a]): reads c.cp, c.co, c.ep, c.eo and the
\* lists BC_CORNER_POS and BE_EDGE_POS.
CallCheckBlocksPreserved(a) ==
    /\ ret' = Called("check_blocks_preserved",
                     check_blocks_preserved(heap[a]).ok)
    /\ UNCHANGED <<heap, top_pos, bc_pos, be_pos>>
    /\ UNCHANGED <<notationVars, turnVars, algebraVars>>

\* phi_on_top_corners(heap[a]): top_cubies is a copy of TOP_POS; cubie_pos,
\* cubie_ori, perm and twist are fresh lists.
CallPhiOnTopCorners(a) ==
    /\ ret' = Called("phi_on_top_corners", phi_on_top_corners(heap[a]).ok)
    /\ UNCHANGED <<heap, top_pos, bc_pos, be_pos>>
    /\ UNCHANGED <<notationVars, turnVars, algebraVars>>

NextHeap ==
    \/ CallSolved
    \/ \E self \in 1..Len(heap), m \in 1..Len(heap) : CallMultiply(self, m)
    \/ \E s \in HeapSeqs : CallMovesToCube(s)
    \/ \E a \in 1..Len(heap) : CallCheckBlocksPreserved(a)
    \/ \E a \in 1..Len(heap) : CallPhiOnTopCorners(a)

SpecHeap == InitHeap /\ [][NextHeap]_vars

\* C8: no call of multiply, moves_to_cube, check_blocks_preserved or
\* phi_on_top_corners, returning or raising, changes an object that existed
\* before it (the operands, the checked or projected state, the six move
\* constants) or one of the lists TOP_POS, BC_CORNER_POS, BE_EDGE_POS.
C8_NoOperandMutated ==
    [][/\ Len(heap') >= Len(heap)
       /\ \A a \in 1..Len(heap) : heap'[a] = heap[a]
       /\ top_pos' = top_pos /\ bc_pos' = bc_pos /\ be_pos' = be_pos]_vars

\* After R.multiply(F) the projection of an object has raised; the move
\* constants and the position lists are what they were.
C8_Witness ==
    /\ Len(heap) = Len(MoveOrder) + 1
    /\ ret = Called("phi_on_top_corners", FALSE)
    /\ SubSeq(heap, 1, Len(MoveOrder)) = MoveObjects
    /\ heap[Len(heap)] = multiply(MOVE_R, MOVE_F)
    /\ top_pos = TOP_POS /\ bc_pos = BC_CORNER_POS /\ be_pos = BE_EDGE_POS
=============================================================================
